---- MODULE Spec2Model ----
(***************************************************************************)
(* Model of silly-wave-function.py: the truncated eigenfunction expansion  *)
(* of a particle in an infinite square well, its Fourier coefficients      *)
(* c_n, the evaluator psi(x, t) and the animation callbacks init/update.   *)
(*                                                                         *)
(* Numbers.  A Python float is modelled as a fixed-point integer: the real *)
(* v is the integer v * Scale, rounded to nearest.  A complex number is a  *)
(* record [re, im] of two such integers.  TLC's integers are 32 bits wide, *)
(* so the SI values of the source (1e-10 m, 9.1e-31 kg, 1.05e-34 J s) are  *)
(* written in the unit system  length = 1 Angstrom (1e-10 m),              *)
(* mass = 1 electron mass (9.10938356e-31 kg), time = 1e-17 s.  In these   *)
(* units a = 1, m = 1 and hbar = 1.054571817e-34 / 9.10938356e-34          *)
(* = 0.11577, and tau = 1.7504 (the source's 1.7504e-17 s).                *)
(***************************************************************************)
EXTENDS Integers, Sequences, FiniteSets

\* Fixed-point resolution: the real 1.0 is the integer Scale.
Scale == 10^4

\* ------------------------------------------------------------------------
\* Fixed-point arithmetic (Python float *, /, np.sqrt, np.sin, np.exp)
\* ------------------------------------------------------------------------

Abs(v) == IF v < 0 THEN -v ELSE v

Sgn(v) == IF v < 0 THEN -1 ELSE 1

\* v * w of two fixed-point numbers, rounded to nearest; the product is
\* formed limb by limb so that no intermediate leaves 32 bits.
Mul(v, w) ==
    LET av == Abs(v)
        aw == Abs(w)
        vh == av \div Scale
        vl == av % Scale
        wh == aw \div Scale
        wl == aw % Scale
    IN  Sgn(v) * Sgn(w) *
          (vh * wh * Scale + vh * wl + vl * wh + (vl * wl + Scale \div 2) \div Scale)

\* The float "not a number / infinite" outcome of a division by zero.
NaN == 2^30 + (2^30 - 1)

IsFinite(v) == v # NaN

\* v / w of two fixed-point numbers, rounded to nearest.  numpy answers a
\* division by zero with nan or inf (and a RuntimeWarning), never a trap.
Div(v, w) ==
    IF w = 0 THEN NaN
    ELSE LET av == Abs(v)
             aw == Abs(w)
         IN  Sgn(v) * Sgn(w) *
               ((av \div aw) * Scale + ((av % aw) * Scale + aw \div 2) \div aw)

\* Arithmetic that propagates nan, as IEEE arithmetic does.
Sub(v, w) == IF IsFinite(v) /\ IsFinite(w) THEN v - w ELSE NaN

MulN(v, w) == IF IsFinite(v) /\ IsFinite(w) THEN Mul(v, w) ELSE NaN

\* An integer (a Python int such as n, 2 - n, n**2) as a fixed-point number.
Fix(i) == i * Scale

RECURSIVE SqrtIter(_, _)
SqrtIter(v, g) ==
    LET h == (g + v \div g) \div 2
    IN  IF h >= g THEN g ELSE SqrtIter(v, h)

\* np.sqrt(v): the integer square root of v * Scale, by Newton's iteration
\* from a first guess that is not below it.
Sqrt(v) == IF v = 0 THEN 0 ELSE SqrtIter(v * Scale, (v + Scale) \div 2 + 1)

\* np.pi
Pi == 31416

TwoPi == 2 * Pi

HalfPi == Pi \div 2

\* The argument of a sine or cosine brought into [-Pi, Pi).
Reduce(th) == ((th + Pi) % TwoPi) - Pi

\* Taylor polynomials on [-Pi/2, Pi/2]; the remainder is below 1/Scale.
SinPoly(r) ==
    LET r2 == Mul(r, r)
        r3 == Mul(r2, r)
        r5 == Mul(r3, r2)
        r7 == Mul(r5, r2)
        r9 == Mul(r7, r2)
    IN  r - r3 \div 6 + r5 \div 120 - r7 \div 5040 + r9 \div 362880

CosPoly(r) ==
    LET r2 == Mul(r, r)
        r4 == Mul(r2, r2)
        r6 == Mul(r4, r2)
        r8 == Mul(r4, r4)
    IN  Scale - r2 \div 2 + r4 \div 24 - r6 \div 720 + r8 \div 40320

\* np.sin(th)
Sin(th) ==
    LET r == Reduce(th)
    IN  IF r > HalfPi THEN SinPoly(Pi - r)
        ELSE IF r < -HalfPi THEN SinPoly(-Pi - r)
        ELSE SinPoly(r)

\* The real part of np.exp(1j*th)
Cos(th) ==
    LET r == Reduce(th)
    IN  IF r > HalfPi THEN -CosPoly(Pi - r)
        ELSE IF r < -HalfPi THEN -CosPoly(-Pi - r)
        ELSE CosPoly(r)

\* np.exp(-1j * th) = cos(th) - i sin(th)
ExpNegI(th) == [re |-> Cos(th), im |-> -Sin(th)]

\* ------------------------------------------------------------------------
\* Bounds of the model
\* ------------------------------------------------------------------------

\* Points of the spatial grid (the source's 1000).
GridPoints == 9

\* Truncation order (the source's Nmax = 50).
MaxModes == 6

\* Elements of the time sequence (the source's 200).
NumFrames == 8

\* Passes of the animation: the export by ani.save, then the replays of
\* plt.show().
MaxPasses == 2

\* Largest mode index handed to c_n on its own.
MaxIndex == 60

\* Distinct times the interleaved frame computations choose from.
ParTimes == 3

VARIABLES
    a, m, hbar,          \* physical parameters
    tau, t_max,          \* derived scales
    x,                   \* spatial grid
    Nmax,                \* truncation order
    frames,              \* time sequence
    y0,                  \* the standalone initial density
    line_ydata,          \* y data of the plotted line
    time_text,           \* text of the time annotation
    pc,                  \* position of the main program
    call,                \* per worker: the activation of psi and its caller
    k,                   \* next element of the animation's frame sequence
    pass,                \* passes of the animation started so far
    produced,            \* frames handed to the renderer in this pass
    done,                \* per time index: frame of the last computation
    cn_arg, cn_ret       \* argument and result of a call of c_n

globals == <<a, m, hbar, tau, t_max, x, Nmax, frames>>

vars == <<a, m, hbar, tau, t_max, x, Nmax, frames, y0, line_ydata, time_text,
          pc, call, k, pass, produced, done, cn_arg, cn_ret>>

None == "none"

\* An array not yet assigned.
NoArray == <<>>

\* ------------------------------------------------------------------------
\* Module-level parameters (lines 5-18, 75)
\* ------------------------------------------------------------------------

\* a = 1e-10 m = 1 Angstrom
BoxLength == Fix(1)

\* m = 9.10938356e-31 kg = 1 electron mass
Mass == Fix(1)

\* hbar = 1.054571817e-34 J s = 0.1158 m_e Angstrom^2 / (1e-17 s)
Hbar == 1158

\* np.pi**2
Pi2 == Mul(Pi, Pi)

\* tau = 2 * m * a**2 / (np.pi**2 * hbar)
Tau(mm, aa, hh) == Div(Mul(2 * mm, Mul(aa, aa)), Mul(Pi2, hh))

\* Variant of TMax: the animation spans one period 2 pi tau of the density.
TMaxOnePeriod(tt) == Mul(TwoPi, tt)

\* t_max = 10 * tau
TMax(tt) == 10 * tt

\* Variant of Linspace: endpoint excluded (step = (hi - lo)/num).
LinspaceNoEndpoint(lo, hi, num) ==
    LET step == ((hi - lo) + num \div 2) \div num
    IN  [j \in 1..num |-> lo + (j - 1) * step]

\* Variant of Linspace: the first element is one step after lo.
LinspaceFromStep(lo, hi, num) ==
    LET step == ((hi - lo) + num \div 2) \div num
    IN  [j \in 1..num |-> IF j = num THEN hi ELSE lo + j * step]

\* np.linspace(lo, hi, num): lo + j*step with step = (hi - lo)/(num - 1),
\* and the last element set to hi itself.
Linspace(lo, hi, num) ==
    LET step == ((hi - lo) + (num - 1) \div 2) \div (num - 1)
    IN  [j \in 1..num |-> IF j = num THEN hi ELSE lo + (j - 1) * step]

\* ------------------------------------------------------------------------
\* c_n (lines 20-33)
\* ------------------------------------------------------------------------

\* The general formula, its two denominators and the value it yields.
CnGeneral(n) ==
    LET d1 == 2 - n
        d2 == 2 + n
        q1 == Div(Sin((d1 * Pi) \div 2), Fix(d1))
        q2 == Div(Sin((d2 * Pi) \div 2), Fix(d2))
    IN  [branch |-> "general", dens |-> <<d1, d2>>,
         val |-> MulN(Div(Sqrt(Fix(2)), Pi), Sub(q1, q2))]

\* Variant of CnEval: no explicit branch for n = 2.
CnEvalNoBranch(n) == CnGeneral(n)

\* One evaluation of c_n: the branch taken, the denominators divided by,
\* and the value returned.
CnEval(n) ==
    IF n = 2
    THEN [branch |-> "limit", dens |-> <<>>, val |-> Div(Sqrt(Fix(2)), Fix(2))]
    ELSE CnGeneral(n)

c_n(n) == CnEval(n).val

\* ------------------------------------------------------------------------
\* psi (lines 35-46)
\* ------------------------------------------------------------------------

C0 == [re |-> 0, im |-> 0]

\* Variant of zeros_like: the accumulator of the previous activation is
\* taken over instead of a new array of zeros.
StaleLike(xx) ==
    IF call[1].psi_val = <<>> THEN [j \in DOMAIN xx |-> C0] ELSE call[1].psi_val

\* np.zeros_like(x, dtype=complex)
zeros_like(xx) == [j \in DOMAIN xx |-> C0]

\* Variant of ModeRange: range(1, Nmax), the last mode left out.
ModeRangeShort(N) == 1..(N - 1)

\* range(1, Nmax+1)
ModeRange(N) == 1..N

\* Variant of Angle: the factor t left out.
AngleNoTime(n, t) == Div(Mul(n * n * Pi2, hbar), Mul(2 * m, Mul(a, a)))

\* The angle of the phase: n**2 * np.pi**2 * hbar * t / (2 * m * a**2)
Angle(n, t) == Div(Mul(Mul(n * n * Pi2, hbar), t), Mul(2 * m, Mul(a, a)))

\* phase = np.exp(-1j * n**2 * np.pi**2 * hbar * t / (2 * m * a**2))
Phase(n, t) == ExpNegI(Angle(n, t))

\* Variant of Spatial: the normalisation sqrt(2/a) left out.
SpatialUnnormalised(n, j) == Mul(c_n(n), Sin(Div(Mul(n * Pi, x[j]), a)))

\* c_n(n) * np.sqrt(2/a) * np.sin(n * np.pi * x / a), at grid point j
Spatial(n, j) ==
    Mul(Mul(c_n(n), Sqrt(Div(Fix(2), a))), Sin(Div(Mul(n * Pi, x[j]), a)))

\* The addend of one pass of the loop, at grid point j
PsiTerm(n, t, j) ==
    LET ph == Phase(n, t)
        r  == Spatial(n, j)
    IN  [re |-> Mul(r, ph.re), im |-> Mul(r, ph.im)]

\* psi_val += ...   (one pass of the loop, on the whole array)
Accumulate(acc, n, t) ==
    [j \in DOMAIN acc |->
        LET d == PsiTerm(n, t, j)
        IN  [re |-> acc[j].re + d.re, im |-> acc[j].im + d.im]]

RECURSIVE PsiFrom(_, _, _)
PsiFrom(acc, n, t) ==
    IF n > Nmax THEN acc ELSE PsiFrom(Accumulate(acc, n, t), n + 1, t)

\* psi(x, t) run alone, start to end
psi(t) == PsiFrom(zeros_like(x), 1, t)

\* Variant of AbsSq: the real part of z**2 in place of |z|**2.
SquareRe(z) ==
    [j \in DOMAIN z |-> Mul(z[j].re, z[j].re) - Mul(z[j].im, z[j].im)]

\* np.abs(z)**2, elementwise
AbsSq(z) ==
    [j \in DOMAIN z |->
        LET r == Sqrt(Mul(z[j].re, z[j].re) + Mul(z[j].im, z[j].im))
        IN  Mul(r, r)]

\* ------------------------------------------------------------------------
\* The time annotation (lines 64, 71)
\* ------------------------------------------------------------------------

RECURSIVE Fmt(_, _)
Fmt(v, e) ==
    IF v >= 10 * Scale THEN Fmt((v + 5) \div 10, e + 1)
    ELSE IF v < Scale THEN Fmt(v * 10, e - 1)
    ELSE LET d == (v * 100 + Scale \div 2) \div Scale
         IN  IF d >= 1000 THEN [mant |-> 100, exp |-> e + 1]
             ELSE [mant |-> d, exp |-> e]

\* f't = {t:.2e} s': three significant digits and a decimal exponent; the
\* model's time unit is 1e-17 s.
Format2e(t) ==
    IF t = 0 THEN [mant |-> 0, exp |-> 0]
    ELSE LET f == Fmt(t, 0) IN [mant |-> f.mant, exp |-> f.exp - 17]

\* ------------------------------------------------------------------------
\* State after the module-level assignments of lines 5-18 and 75
\* ------------------------------------------------------------------------

\* The workers: 1 is the main program; the others exist only where frame
\* computations run interleaved.
Workers == {1, 2}

\* The elements of the time sequence that are recomputed after the
\* animation: ParTimes of them, spread from the first to the last.
ParFrames == {1 + ((q - 1) * (NumFrames - 1)) \div (ParTimes - 1) : q \in 1..ParTimes}

\* A worker that has not called psi yet.
Idle == [st |-> "idle", ret |-> None, fi |-> 0, t |-> 0, n |-> 0,
         psi_val |-> NoArray, modes |-> <<>>]

\* No call of c_n has returned yet.
NoRet == [branch |-> None, dens |-> <<>>, val |-> 0]

GlobalsInit ==
    /\ a = BoxLength
    /\ m = Mass
    /\ hbar = Hbar
    /\ tau = Tau(Mass, BoxLength, Hbar)
    /\ t_max = TMax(Tau(Mass, BoxLength, Hbar))
    /\ x = Linspace(0, BoxLength, GridPoints)
    /\ Nmax = MaxModes
    /\ frames = Linspace(0, TMax(Tau(Mass, BoxLength, Hbar)), NumFrames)

Init ==
    /\ GlobalsInit
    /\ y0 = NoArray
    /\ line_ydata = NoArray
    /\ time_text = None
    /\ pc = "y0"
    /\ call = [i \in Workers |-> Idle]
    /\ k = 1
    /\ pass = 0
    /\ produced = <<>>
    /\ done = [fi \in DOMAIN frames |-> NoArray]
    /\ cn_arg = 0
    /\ cn_ret = NoRet

\* ------------------------------------------------------------------------
\* psi, step by step
\* ------------------------------------------------------------------------

\* Variant of Buf: one module-level accumulator for all activations.
SharedBuf(i) == 1

\* The array the psi_val of worker i's activation refers to: each activation
\* has its own (line 41 binds a local name to a new array).
Buf(i) == i

\* Worker i enters psi(x, t) for the caller who and runs line 41.  The locals
\* of an activation that has returned are dead; the record keeps them until
\* the next call overwrites them.
Enter(i, who, fi, t) ==
    [call EXCEPT ![i].st = "psi", ![i].ret = who, ![i].fi = fi, ![i].t = t,
                 ![i].n = 1, ![i].modes = <<>>,
                 ![Buf(i)].psi_val = zeros_like(x)]

\* Worker i leaves psi.
Leave(i) == [call EXCEPT ![i].st = "idle"]

\* One pass of the loop of lines 42-45.
PsiLoop(i) ==
    /\ call[i].st = "psi"
    /\ call[i].n \in ModeRange(Nmax)
    /\ call' = [call EXCEPT
                  ![Buf(i)].psi_val =
                      Accumulate(call[Buf(i)].psi_val, call[i].n, call[i].t),
                  ![i].modes = Append(call[i].modes, call[i].n),
                  ![i].n = call[i].n + 1]
    /\ UNCHANGED <<globals, y0, line_ydata, time_text, pc, k, pass, produced,
                   done, cn_arg, cn_ret>>

\* psi is at "return psi_val" (line 46) for the caller who.
Returning(i, who) ==
    /\ call[i].st = "psi"
    /\ call[i].n \notin ModeRange(Nmax)
    /\ call[i].ret = who

\* The value psi returns to worker i.
Returned(i) == call[Buf(i)].psi_val

\* ------------------------------------------------------------------------
\* The main program (lines 48-84)
\* ------------------------------------------------------------------------

\* Line 50 calls psi(x, 0).
Y0Call ==
    /\ pc = "y0"
    /\ call[1].st = "idle"
    /\ call' = Enter(1, "y0", 0, 0)
    /\ UNCHANGED <<globals, y0, line_ydata, time_text, pc, k, pass, produced,
                   done, cn_arg, cn_ret>>

\* Lines 50-59: y0, the line plotted from it, the empty annotation (the axis
\* limits and labels are fixed once and read by nothing modelled here);
\* line 78 builds the animation, line 82 starts the export.
Y0Return ==
    /\ pc = "y0"
    /\ Returning(1, "y0")
    /\ y0' = AbsSq(Returned(1))
    /\ line_ydata' = AbsSq(Returned(1))
    /\ time_text' = ""
    /\ call' = Leave(1)
    /\ pc' = "init"
    /\ pass' = 1
    /\ UNCHANGED <<globals, k, produced, done, cn_arg, cn_ret>>

\* init() calls psi(x, 0) (line 63).
InitCall ==
    /\ pc = "init"
    /\ call[1].st = "idle"
    /\ call' = Enter(1, "init", 0, 0)
    /\ UNCHANGED <<globals, y0, line_ydata, time_text, pc, k, pass, produced,
                   done, cn_arg, cn_ret>>

\* init() sets the line and the annotation (lines 63-65); the animation then
\* starts its frame sequence from the first element.
InitReturn ==
    /\ pc = "init"
    /\ Returning(1, "init")
    /\ line_ydata' = AbsSq(Returned(1))
    /\ time_text' = "t = 0 s"
    /\ produced' = <<[by |-> "init", t |-> 0, psi |-> Returned(1),
                      y |-> AbsSq(Returned(1))]>>
    /\ call' = Leave(1)
    /\ k' = 1
    /\ pc' = "frame"
    /\ UNCHANGED <<globals, y0, pass, done, cn_arg, cn_ret>>

\* The animation hands the next element of frames to update (lines 67-69).
UpdateCall ==
    /\ pc = "frame"
    /\ call[1].st = "idle"
    /\ k \in DOMAIN frames
    /\ call' = Enter(1, "update", k, frames[k])
    /\ UNCHANGED <<globals, y0, line_ydata, time_text, pc, k, pass, produced,
                   done, cn_arg, cn_ret>>

\* update(t) sets the line and the annotation (lines 69-72).
UpdateReturn ==
    /\ pc = "frame"
    /\ Returning(1, "update")
    /\ line_ydata' = AbsSq(Returned(1))
    /\ time_text' = Format2e(call[1].t)
    /\ produced' = Append(produced, [by |-> "update", t |-> call[1].t,
                                     psi |-> Returned(1),
                                     y |-> AbsSq(Returned(1))])
    /\ call' = Leave(1)
    /\ k' = k + 1
    /\ pc' = IF k + 1 \in DOMAIN frames THEN "frame" ELSE "shown"
    /\ UNCHANGED <<globals, y0, pass, done, cn_arg, cn_ret>>

\* plt.show() (line 84): the animation repeats, each pass starting with
\* init().
Show ==
    /\ pc = "shown"
    /\ call[1].st = "idle"
    /\ pass < MaxPasses
    /\ pass' = pass + 1
    /\ pc' = "init"
    /\ UNCHANGED <<globals, y0, line_ydata, time_text, call, k, produced, done,
                   cn_arg, cn_ret>>

Next ==
    \/ Y0Call
    \/ PsiLoop(1)
    \/ Y0Return
    \/ InitCall
    \/ InitReturn
    \/ UpdateCall
    \/ UpdateReturn
    \/ Show

Spec == Init /\ [][Next]_vars

\* ------------------------------------------------------------------------
\* c_n on its own, for any positive mode index
\* ------------------------------------------------------------------------

InitCn ==
    /\ GlobalsInit
    /\ y0 = NoArray
    /\ line_ydata = NoArray
    /\ time_text = None
    /\ pc = "c_n"
    /\ call = [i \in Workers |-> Idle]
    /\ k = 1
    /\ pass = 0
    /\ produced = <<>>
    /\ done = [fi \in DOMAIN frames |-> NoArray]
    /\ cn_arg \in 1..MaxIndex
    /\ cn_ret = NoRet

\* c_n(cn_arg) is called and returns.
CnCall ==
    /\ pc = "c_n"
    /\ cn_ret' = CnEval(cn_arg)
    /\ pc' = "c_n_done"
    /\ UNCHANGED <<globals, y0, line_ydata, time_text, call, k, pass, produced,
                   done, cn_arg>>

NextCn == CnCall

SpecCn == InitCn /\ [][NextCn]_vars

\* ------------------------------------------------------------------------
\* Frames recomputed in any order after the animation has run
\* ------------------------------------------------------------------------

\* The animation is over; update is called for the element fi of the time
\* sequence, whichever it is.
AnyCall(fi) ==
    /\ pc = "shown"
    /\ pass = MaxPasses
    /\ call[1].st = "idle"
    /\ call' = Enter(1, "any", fi, frames[fi])
    /\ UNCHANGED <<globals, y0, line_ydata, time_text, pc, k, pass, produced,
                   done, cn_arg, cn_ret>>

\* update returns (lines 69-72); its frame is stored at its place in time
\* order.
AnyReturn ==
    /\ pc = "shown"
    /\ Returning(1, "any")
    /\ done' = [done EXCEPT ![call[1].fi] = AbsSq(Returned(1))]
    /\ line_ydata' = AbsSq(Returned(1))
    /\ time_text' = Format2e(call[1].t)
    /\ call' = Leave(1)
    /\ UNCHANGED <<globals, y0, pc, k, pass, produced, cn_arg, cn_ret>>

NextAny ==
    \/ Next
    \/ \E fi \in ParFrames : AnyCall(fi)
    \/ AnyReturn

SpecAny == Init /\ [][NextAny]_vars

\* ------------------------------------------------------------------------
\* Frame computations run as interleaved workers after the animation has run
\* ------------------------------------------------------------------------

\* Worker i starts update(frames[fi]).
ParCall(i, fi) ==
    /\ pc = "shown"
    /\ pass = MaxPasses
    /\ call[i].st = "idle"
    /\ call' = Enter(i, "worker", fi, frames[fi])
    /\ UNCHANGED <<globals, y0, line_ydata, time_text, pc, k, pass, produced,
                   done, cn_arg, cn_ret>>

\* Worker i finishes update (lines 69-72): the frame, the line, the text.
ParReturn(i) ==
    /\ pc = "shown"
    /\ Returning(i, "worker")
    /\ line_ydata' = AbsSq(Returned(i))
    /\ time_text' = Format2e(call[i].t)
    /\ call' = Leave(i)
    /\ UNCHANGED <<globals, y0, pc, k, pass, produced, done, cn_arg, cn_ret>>

NextPar ==
    \/ Next
    \/ \E i \in Workers, fi \in ParFrames : ParCall(i, fi)
    \/ \E i \in Workers : PsiLoop(i)
    \/ \E i \in Workers : ParReturn(i)

SpecPar == Init /\ [][NextPar]_vars

\* ------------------------------------------------------------------------
\* Notions the properties are stated in
\* ------------------------------------------------------------------------

\* Agreement of two floats up to rounding.
Tol == Scale \div 100

Close(v, w, tol) == Abs(v - w) <= tol

CClose(z, w, tol) == Close(z.re, w.re, tol) /\ Close(z.im, w.im, tol)

\* psi of worker i is at its return statement.
AtReturn(i) == call[i].st = "psi" /\ call[i].n \notin ModeRange(Nmax)

\* The eigenfunction phi_n(x_j) = sqrt(2/L) sin(n pi x_j / L), L = a.
Phi(n, j) == Mul(Sqrt(Div(Fix(2), a)), Sin(Div(Mul(n * Pi, x[j]), a)))

CAdd(z, w) == [re |-> z.re + w.re, im |-> z.im + w.im]

\* E_n = n^2 pi^2 hbar / (2 m L^2), the energy as the contract writes it.
EnStated(n) == Div(Mul(n * n * Pi2, hbar), Mul(2 * m, Mul(a, a)))

\* c_n phi_n(x_j) exp(-i E_n t / hbar) with the E_n of the contract.
StatedTerm(n, t, j) ==
    LET ph == ExpNegI(Div(Mul(EnStated(n), t), hbar))
        r  == Mul(c_n(n), Phi(n, j))
    IN  [re |-> Mul(r, ph.re), im |-> Mul(r, ph.im)]

\* c_n phi_n(x_j) exp(-i n^2 pi^2 hbar t / (2 m L^2)): the phase of the
\* energy E_n = n^2 pi^2 hbar^2 / (2 m L^2), divided by hbar.
EvolvedTerm(n, t, j) ==
    LET ph == ExpNegI(Div(Mul(Mul(Fix(n * n), Pi2), Mul(hbar, t)),
                          Mul(Fix(2), Mul(m, Mul(a, a)))))
        r  == Mul(c_n(n), Phi(n, j))
    IN  [re |-> Mul(r, ph.re), im |-> Mul(r, ph.im)]

RECURSIVE StatedSum(_, _, _)
\* The sum over the modes 1..n of the terms as the contract writes them.
StatedSum(n, t, j) ==
    IF n = 0 THEN C0 ELSE CAdd(StatedTerm(n, t, j), StatedSum(n - 1, t, j))

RECURSIVE EvolvedSum(_, _, _)
\* The sum over the modes 1..n of the terms with the phase of E_n / hbar.
EvolvedSum(n, t, j) ==
    IF n = 0 THEN C0 ELSE CAdd(EvolvedTerm(n, t, j), EvolvedSum(n - 1, t, j))

\* ------------------------------------------------------------------------
\* C1
\* ------------------------------------------------------------------------

C2_NoDivisionByZero ==
    pc = "c_n_done" =>
        /\ IsFinite(cn_ret.val)
        /\ \A q \in DOMAIN cn_ret.dens : cn_ret.dens[q] # 0
        /\ cn_arg = 2 =>
             /\ cn_ret.branch = "limit"
             /\ cn_ret.dens = <<>>
             /\ cn_ret.val = Div(Sqrt(Fix(2)), Fix(2))
        /\ cn_arg # 2 =>
             /\ cn_ret.branch = "general"
             /\ cn_ret.dens = <<2 - cn_arg, 2 + cn_arg>>

\* c_n(2) has returned.
C2_Witness == pc = "c_n_done" /\ cn_arg = 2 /\ cn_ret.val > 0

\* Some other c_n(n), with a negative first denominator, has returned.
C2_WitnessGeneral == pc = "c_n_done" /\ cn_arg > 2 /\ cn_ret.val # 0

\* ------------------------------------------------------------------------
\* C3
\* ------------------------------------------------------------------------

\* The frames update has produced in this pass (init's frame is first).
Updates == IF produced = <<>> THEN <<>> ELSE Tail(produced)

\* A linspace step is even up to the rounding of the step and the exact
\* last element.
EvenlySpaced(s) ==
    \A i \in 1..(Len(s) - 1) :
        Close(s[i + 1] - s[i], s[2] - s[1], Len(s))

\* C3: the time sequence has NumFrames evenly spaced values from 0 to t_max;
\* in every pass update produces the frame |psi(x, t)|^2 of each element
\* once, in the order of the sequence, which is strictly increasing.
C3_OneFramePerTime ==
    /\ Len(frames) = NumFrames
    /\ frames[1] = 0
    /\ frames[Len(frames)] = t_max
    /\ EvenlySpaced(frames)
    /\ \A i \in 1..(Len(frames) - 1) : frames[i] < frames[i + 1]
    /\ Len(Updates) <= Len(frames)
    /\ \A i \in DOMAIN Updates :
         /\ Updates[i].by = "update"
         /\ Updates[i].t = frames[i]
         /\ Updates[i].y = AbsSq(psi(frames[i]))
    /\ \A i \in 1..(Len(Updates) - 1) : Updates[i].t < Updates[i + 1].t
    /\ pc = "shown" => Len(Updates) = Len(frames)

\* A pass has ended with all its frames produced.
C3_Witness == pc = "shown" /\ Len(Updates) = NumFrames /\ pass = MaxPasses

\* ------------------------------------------------------------------------
\* C4
\* ------------------------------------------------------------------------

\* C4: y0, the frame set by init() and the frame set by update for the
\* first element of the time sequence (t = 0) are one and the same array,
\* the general evaluator's |psi(x, 0)|^2.
C4_InitialFrame ==
    /\ y0 # NoArray => y0 = AbsSq(psi(0))
    /\ Len(produced) >= 1 =>
         produced[1].by = "init" /\ produced[1].y = y0
    /\ Len(produced) >= 2 =>
         /\ produced[2].by = "update"
         /\ produced[2].t = 0
         /\ produced[2].y = y0
         /\ produced[2].y = produced[1].y

\* update has just set the first frame of the sequence.
C4_Witness ==
    /\ Len(produced) = 2
    /\ line_ydata = y0
    /\ \E j \in DOMAIN x : y0[j] > 0

\* ------------------------------------------------------------------------
\* C6
\* ------------------------------------------------------------------------

RECURSIVE Trapz(_, _)
Trapz(y, j) ==
    IF j = 0 THEN 0
    ELSE Mul((y[j] + y[j + 1]) \div 2, x[j + 1] - x[j]) + Trapz(y, j - 1)

\* The integral of a frame over the grid (trapezoidal rule).
Integral(y) == Trapz(y, Len(x) - 1)

\* Discretization and truncation error allowed on the total probability.
NormTol == Scale \div 100

\* C6: every frame of the time sequence integrates to 1 within
\* discretization error, and so does y0; the total probability of one
\* frame differs from that of the frame before by no more than that.
C6_Normalised ==
    /\ y0 # NoArray => Close(Integral(y0), Scale, NormTol)
    /\ \A i \in DOMAIN produced : Close(Integral(produced[i].y), Scale, NormTol)
    /\ \A i \in 1..(Len(produced) - 1) :
         Close(Integral(produced[i + 1].y), Integral(produced[i].y), NormTol)

\* A frame of a positive time, different from the initial one, was produced.
C6_Witness ==
    /\ Len(produced) >= 3
    /\ produced[Len(produced)].t > 0
    /\ produced[Len(produced)].y # y0

\* ------------------------------------------------------------------------
\* C7
\* ------------------------------------------------------------------------

\* Two densities match closely when they differ by at most MatchTol at
\* every grid point.
MatchTol == Scale \div 10

Matches(y, z) == \A j \in DOMAIN y : Close(y[j], z[j], MatchTol)

\* The fundamental period of the density, 2 pi tau: every active pair of
\* modes has a phase difference (n^2 - k^2) t / tau, and the differences
\* n^2 - k^2 of the active modes (2 and the odd n) have no common factor.
Period == Mul(TwoPi, tau)

\* C7 as stated: the density at the last sampled time t_max = 10 tau closely
\* matches the density at t = 0 at every grid point.
C7_Stated ==
    (pc = "shown" /\ Len(Updates) = Len(frames)) =>
        Matches(Updates[Len(Updates)].y, y0)

\* C7 amended: t_max = 10 tau lies strictly between one and two fundamental
\* periods 2 pi tau of the density, so it is no integer multiple of the
\* period; the density at the last sampled time differs from the density at
\* t = 0 by more than 1/a at some grid point, while the density one period
\* after t = 0 matches it closely.
C7_NotPeriodicAtTmax ==
    (pc = "shown" /\ Len(Updates) = Len(frames)) =>
        /\ Updates[Len(Updates)].t = t_max
        /\ Period < t_max
        /\ t_max < 2 * Period
        /\ \E j \in DOMAIN x :
             ~Close(Updates[Len(Updates)].y[j], y0[j], Scale)
        /\ Matches(AbsSq(psi(Period)), y0)

\* The last frame of a pass has been produced.
C7_Witness ==
    /\ pc = "shown"
    /\ Len(Updates) = Len(frames)
    /\ Updates[Len(Updates)].t = 10 * tau

\* ------------------------------------------------------------------------
\* C8
\* ------------------------------------------------------------------------

\* A real (not complex, not nan) array of non-negative values.
NonNegReal(y) == \A j \in DOMAIN y : y[j] \in Nat

\* C8: y0, the y data of the line and every frame produced by init and
\* update hold non-negative reals only.
C8_NonNegative ==
    /\ y0 # NoArray => NonNegReal(y0)
    /\ line_ydata # NoArray => NonNegReal(line_ydata)
    /\ \A i \in DOMAIN produced : NonNegReal(produced[i].y)

\* update has set a frame whose wavefunction has a non-zero imaginary part
\* and a negative real part somewhere.
C8_Witness ==
    /\ Len(produced) >= 3
    /\ line_ydata = produced[Len(produced)].y
    /\ \E j \in DOMAIN x : psi(produced[Len(produced)].t)[j].im # 0
    /\ \E j \in DOMAIN x : psi(produced[Len(produced)].t)[j].re < 0

\* ------------------------------------------------------------------------
\* C10
\* ------------------------------------------------------------------------

\* The declared initial condition: sqrt(4/a) sin(2 pi x/a) for
\* 0 <= x < a/2, 0 otherwise.
Psi0(j) ==
    IF 0 <= x[j] /\ 2 * x[j] < a
    THEN Mul(Sqrt(Div(Fix(4), a)), Sin(Div(Mul(2 * Pi, x[j]), a)))
    ELSE 0

RECURSIVE Recon(_, _)
\* The truncated Fourier reconstruction: the sum over n = 1..N of
\* c_n sqrt(2/a) sin(n pi x_j/a).
Recon(N, j) ==
    IF N = 0 THEN 0
    ELSE Recon(N - 1, j) + Mul(Mul(c_n(N), Sqrt(Div(Fix(2), a))),
                               Sin(Div(Mul(N * Pi, x[j]), a)))

\* Residual of the truncation at the model's MaxModes.
ReconTol == Scale \div 4

\* C10: at t = 0 every mode's phase factor is exactly 1, and psi(x, 0) has
\* zero imaginary part and the real part of the truncated Fourier
\* reconstruction, which approximates the declared initial condition.
C10_InitialReconstruction ==
    \A i \in DOMAIN call :
        (AtReturn(i) /\ call[i].t = 0) =>
            /\ \A n \in 1..Nmax : Phase(n, 0) = [re |-> Scale, im |-> 0]
            /\ \A j \in DOMAIN x :
                 /\ Returned(i)[j].im = 0
                 /\ Returned(i)[j].re = Recon(Nmax, j)
                 /\ Close(Returned(i)[j].re, Psi0(j), ReconTol)

\* psi(x, 0) returns to the standalone computation of y0.
C10_Witness ==
    /\ AtReturn(1)
    /\ call[1].t = 0
    /\ call[1].ret = "y0"
    /\ \E j \in DOMAIN x : Returned(1)[j].re > Scale
\* ------------------------------------------------------------------------
\* C5
\* ------------------------------------------------------------------------

\* Every element chosen for recomputation has been recomputed.
AllDone == \A fi \in ParFrames : done[fi] # NoArray

\* C5: psi has no hidden state.  An evaluation at the time of element fi,
\* made after the whole animation and after any other evaluations in any
\* order, returns the array the in-order evaluation returned for that
\* element; the frames recomputed in any order, put at their places in time
\* order, are the frames of the in-order sequence; and the evaluations at
\* t = 0 for y0, by init and by update agree.
C5_NoHiddenState ==
    /\ (AtReturn(1) /\ call[1].t = 0 /\ y0 # NoArray) => AbsSq(Returned(1)) = y0
    /\ (AtReturn(1) /\ call[1].ret = "any") =>
          Returned(1) = Updates[call[1].fi].psi
    /\ \A fi \in DOMAIN done :
          done[fi] # NoArray => done[fi] = Updates[fi].y
    /\ AllDone => [fi \in ParFrames |-> done[fi]] = [fi \in ParFrames |-> Updates[fi].y]
    /\ Len(produced) >= 2 => produced[2].psi = produced[1].psi

\* All chosen frames were recomputed, the first element of the sequence
\* after the last.
C5_Witness ==
    /\ AllDone
    /\ call[1].st = "idle"
    /\ call[1].ret = "any"
    /\ call[1].fi = 1
    /\ done[Len(frames)] # done[1]

\* ------------------------------------------------------------------------
\* C9
\* ------------------------------------------------------------------------

====
